---- MODULE Spec2Model ----
(***************************************************************************)
(* Model of the field-service report generator:                            *)
(*   - generatePartReturnedAndConsumedTable (templates/reportTemplate.js)  *)
(*   - the PDFKit composers generateDPGReport, generateThermalOrPowerReport*)
(*     generateDCPSReport, generateAirReport (templates/reportTemplate.js) *)
(*   - the notification.report POST handler (api/notification.report.js)  *)
(***************************************************************************)
EXTENDS Integers, Sequences, FiniteSets, TLC

\* ------------------------------------------------------------------------
\* Bounds of the model
\* ------------------------------------------------------------------------
MaxLen == 4
MaxDefault == 4
MaxParts == 16
MaxHandlerLen == 1
MaxChunks == 2
MaxCallers == 2
MaxCalls == 3
MaxClock == 2
MaxReruns == 1
MaxRows == 30

\* ------------------------------------------------------------------------
\* JavaScript values
\* ------------------------------------------------------------------------
\* The value of a property that is not there.
Undefined == "<undefined>"

\* String.prototype.toLowerCase on the activity strings of the model.
ToLowerCase(s) ==
    CASE s = "Issued" -> "issued"
      [] s = "RETURNED" -> "returned"
      [] s = "Issued/Returned" -> "issued/returned"
      [] s = "Returned" -> "returned"
      [] s = "CALL-001" -> "call-001"
      [] s = "DPG" -> "dpg"
      [] OTHER -> s

\* String.prototype.includes (case-sensitive substring test) on the
\* activity strings of the model, for the two tokens the code looks for.
Includes(s, tok) ==
    CASE tok = "issued" -> s \in {"issued", "issued/returned"}
      [] tok = "return" -> s \in {"return", "returned", "issued/returned"}
      [] OTHER -> FALSE

\* `v ? v : ""` : a falsy field prints as the empty string.
FieldText(v) == IF v = Undefined \/ v = "" THEN "" ELSE v

\* ------------------------------------------------------------------------
\* Inputs: material entries
\* ------------------------------------------------------------------------
Part(act, code, desc, serialno, qty) ==
    [part_activity |-> act, part_code |-> code, part_description |-> desc,
     part_serialno |-> serialno, part_qty |-> qty]

PartPool ==
    { Part("Issued", "P1", "D1", "S1", "2"),
      Part("RETURNED", "P2", "D2", "S2", "1"),
      Part("Issued/Returned", "P3", "D3", "S3", "1"),
      Part("consumed", "P4", "D4", "S4", "1"),
      Part("issued", "P5", Undefined, "", "3"),
      Part("return", "P6", "D6", "S6", "4"),
      Part(Undefined, "P7", "D7", "S7", "1") }

RECURSIVE SeqsUpTo(_, _)
SeqsUpTo(S, n) ==
    IF n = 0 THEN { <<>> }
    ELSE LET shorter == SeqsUpTo(S, n - 1)
         IN  shorter \cup { Append(s, x) : s \in { t \in shorter : Len(t) = n - 1 }, x \in S }

\* param.material as the caller may send it: absent, an array, an object
\* that is not an array (no length), or a non-empty string.
MaterialKinds == {"absent", "array", "object", "string"}

\* ------------------------------------------------------------------------
\* generatePartReturnedAndConsumedTable
\* ------------------------------------------------------------------------
\* One rendered row: the five cells of the row's markup.  pad tells the
\* markup of a padding row (no ellipsis styles) from that of a real row.
\* A statement's value is computed once and then used: F applied to the
\* value of v.
Bind(v, F(_)) == CHOOSE r \in { F(x) : x \in {v} } : TRUE

RealRow(sr, element) ==
    [sr |-> sr,
     code |-> FieldText(element.part_code),
     desc |-> FieldText(element.part_description),
     serialno |-> FieldText(element.part_serialno),
     qty |-> FieldText(element.part_qty),
     pad |-> FALSE]

BlankRow(sr) ==
    [sr |-> sr, code |-> "", desc |-> "", serialno |-> "", qty |-> "", pad |-> TRUE]

MatchesIssued(element) == Includes(ToLowerCase(element.part_activity), "issued")
MatchesReturn(element) == Includes(ToLowerCase(element.part_activity), "return")

\* The isOnepmFSR filter callback, run over the array once, left to right.
\* element.part_activity.toLowerCase() throws on an entry without activity.
RECURSIVE OnepmFilter(_, _, _, _, _)
OnepmFilter(material, i, issueCount, returnCount, acc) ==
    IF i > Len(material) THEN [threw |-> FALSE, arr |-> acc]
    ELSE LET element == material[i] IN
         IF element.part_activity = Undefined THEN [threw |-> TRUE, arr |-> acc]
         ELSE IF MatchesIssued(element) /\ issueCount < 3
              THEN OnepmFilter(material, i + 1, issueCount + 1, returnCount, Append(acc, element))
         ELSE IF MatchesReturn(element) /\ returnCount < 3
              THEN OnepmFilter(material, i + 1, issueCount, returnCount + 1, Append(acc, element))
         ELSE OnepmFilter(material, i + 1, issueCount, returnCount, acc)

\* Mutant of ForEachStep: the second test chained with `else if`.
ForEachStepElseIf(st, element) ==
    IF MatchesIssued(element)
    THEN [st EXCEPT !.issuedEls = Append(@, RealRow(st.issuedCount + 1, element)),
                    !.issuedCount = @ + 1]
    ELSE IF MatchesReturn(element)
    THEN [st EXCEPT !.returnedEls = Append(@, RealRow(st.returnedCount + 1, element)),
                    !.returnedCount = @ + 1]
    ELSE st

\* One iteration of materialArr.forEach: the two independent `if`s.
ForEachStep(st, element) ==
    LET afterIssued ==
            IF MatchesIssued(element)
            THEN [st EXCEPT !.issuedEls = Append(@, RealRow(st.issuedCount + 1, element)),
                            !.issuedCount = @ + 1]
            ELSE st
    IN  IF MatchesReturn(element)
        THEN [afterIssued EXCEPT !.returnedEls = Append(@, RealRow(afterIssued.returnedCount + 1, element)),
                                 !.returnedCount = @ + 1]
        ELSE afterIssued

RECURSIVE ForEachMaterial(_, _, _)
ForEachMaterial(materialArr, i, st) ==
    IF i > Len(materialArr) THEN st
    ELSE IF materialArr[i].part_activity = Undefined THEN [st EXCEPT !.threw = TRUE]
    ELSE Bind(ForEachStep(st, materialArr[i]),
              LAMBDA st1 : ForEachMaterial(materialArr, i + 1, st1))

\* Mutant of PadRows: the padding cell prints i instead of i+1.
PadRowsFromI(count, defaultValue) ==
    [k \in 1..(IF defaultValue > count THEN defaultValue - count ELSE 0) |-> BlankRow(count + k - 1)]

\* The padding loops: rows i+1 for i = count .. defaultValue-1.
PadRows(count, defaultValue) ==
    [k \in 1..(IF defaultValue > count THEN defaultValue - count ELSE 0) |-> BlankRow(count + k)]

\* Mutant of NeedsPadding: both tables must be short.
NeedsPaddingAnd(issuedCount, returnedCount, defaultValue) ==
    returnedCount < defaultValue /\ issuedCount < defaultValue

\* The guard around the two padding loops.
NeedsPadding(issuedCount, returnedCount, defaultValue) ==
    returnedCount < defaultValue \/ issuedCount < defaultValue

EmptyTables ==
    [threw |-> FALSE, issuedEls |-> <<>>, returnedEls |-> <<>>, issuedCount |-> 0, returnedCount |-> 0]

\* The filter and the forEach over param.material; param is
\* [materialKind, material] and material is meaningful for "array".
ScanMaterial(param, isOnepmFSR) ==
    CASE param.materialKind = "array" /\ Len(param.material) > 0 ->
            Bind(IF isOnepmFSR
                 THEN OnepmFilter(param.material, 1, 0, 0, <<>>)
                 ELSE [threw |-> FALSE, arr |-> param.material],
                 LAMBDA filtered :
                    IF filtered.threw THEN [EmptyTables EXCEPT !.threw = TRUE]
                    ELSE ForEachMaterial(filtered.arr, 1, EmptyTables))
      \* a non-empty string has a length > 0 but neither filter nor forEach
      [] param.materialKind = "string" -> [EmptyTables EXCEPT !.threw = TRUE]
      \* undefined is falsy; an object has no length: undefined > 0 is false
      [] OTHER -> EmptyTables

\* The padding block and the returned pair of tables.
PadTables(scanned, defaultValue) ==
    IF scanned.threw
    THEN [threw |-> TRUE, issuedEls |-> <<>>, returnedEls |-> <<>>]
    ELSE IF NeedsPadding(scanned.issuedCount, scanned.returnedCount, defaultValue)
    THEN [threw |-> FALSE,
          issuedEls |-> scanned.issuedEls \o PadRows(scanned.issuedCount, defaultValue),
          returnedEls |-> scanned.returnedEls \o PadRows(scanned.returnedCount, defaultValue)]
    ELSE [threw |-> FALSE, issuedEls |-> scanned.issuedEls, returnedEls |-> scanned.returnedEls]

generatePartReturnedAndConsumedTable(param, defaultValue, isOnepmFSR) ==
    Bind(ScanMaterial(param, isOnepmFSR), LAMBDA scanned : PadTables(scanned, defaultValue))

\* The texts of the five cell <div>s of a row of the markup, in order.
CellTexts(row) == <<ToString(row.sr), row.code, row.desc, row.serialno, row.qty>>

\* The matches of /<div[^>]*>([^<]*)<\/div>/g over the markup: the cell
\* <div>s of every row, in order (a row's outer <div> holds other <div>s and
\* does not match).
RECURSIVE DivMatches(_, _)
DivMatches(els, i) ==
    IF i > Len(els) THEN <<>> ELSE CellTexts(els[i]) \o DivMatches(els, i + 1)

\* '<tr><td></td><td></td><td></td><td></td><td></td></tr>'
EmptyTr == <<"", "", "", "", "">>

\* '<tr><td colspan="5">No parts data available</td></tr>'
NoDataTr == <<"No parts data available">>

\* Mutant of KeepText: empty cell texts are pushed too.
KeepTextAlways(text) == TRUE

\* `if (text)`: only a non-empty trimmed text is pushed to currentRow.
KeepText(text) == text # ""

\* generatePartsTableRows(htmlContent): the kept texts are grouped in runs
\* of five, one <tr> per full run; then empty <tr>s up to three rows.
generatePartsTableRows(els) ==
    IF els = <<>> THEN <<NoDataTr>>
    ELSE Bind(SelectSeq(DivMatches(els, 1), KeepText),
              LAMBDA texts :
                 [k \in 1..(Len(texts) \div 5) |-> SubSeq(texts, 5 * k - 4, 5 * k)]
                 \o [k \in 1..(IF Len(texts) \div 5 < 3 THEN 3 - (Len(texts) \div 5) ELSE 0)
                        |-> EmptyTr])

\* ------------------------------------------------------------------------
\* The PDFKit composers
\* ------------------------------------------------------------------------
\* new PDFDocument({ size: 'A4', margin: 50 }): A4 is 841.89 points high.
PageHeight == 841
Margin == 50
PrintableBottom == PageHeight - Margin

\* finalObject.logo as a caller may pass it:
\*   absent    - undefined or the empty string
\*   valid     - 'data:image/...;base64,<a decodable image>'
\*   plain     - a string that does not start with 'data:image'
\*   noComma   - starts with 'data:image' but has no ',': split(',')[1] is
\*               undefined and Buffer.from(undefined, 'base64') throws
\*   corrupt   - starts with 'data:image', decodes to bytes doc.image rejects
\*   nonString - a truthy value without startsWith
LogoKinds == {"absent", "valid", "plain", "noComma", "corrupt", "nonString"}

\* A document under construction: whether drawing threw, the number of
\* pages, the cursor yPosition, the y of the current parts table header and
\* the draw operations in the order they were issued.
NewDoc == [threw |-> FALSE, pages |-> 1, y |-> 0, headerY |-> 0, ops |-> <<>>]

\* !value: undefined and the empty string are falsy.
Missing(value) == value \in {Undefined, ""}

\* value || default
Or(value, default) == IF Missing(value) THEN default ELSE value

\* The clock of the process, in seconds.
VARIABLE cNow

\* The number of seconds of a day on the scale of the clock.
SecondsPerDay == 2

\* new Date().toLocaleString(): the date and the time of day, to the second.
LocaleString(now) == ToString(now)

\* new Date().toLocaleDateString(): the date.
LocaleDateString(now) == ToString(now \div SecondsPerDay)

\* new Date().toLocaleDateString() at the time of the call.
Today == LocaleDateString(cNow)

\* One doc.text / doc.rect / doc.image: what, on which page, at which y, how
\* high, and for the value of an input field the text drawn.
Op(tag, page, y, h, text) == [tag |-> tag, page |-> page, y |-> y, h |-> h, text |-> text]

\* The statements of a composer, in source order:
\*   At(tag, y, h)        draw at the absolute y
\*   Here(tag, h, adv)    draw at yPosition, then yPosition += adv
\*   Below(tag, off)      draw at yPosition + off
\*   Skip(adv)            yPosition += adv
\*   SetY(y)              yPosition = y
\*   PageBreak            if (yPosition > 600) { doc.addPage(); yPosition = 50; }
\*   Header               const partsHeaderY = yPosition, the header row, yPosition = partsHeaderY + 25
\*   PadWhile             while (yPosition < partsHeaderY + 100) { row; yPosition += 20; }
\*   Throw                an exception leaves the try block
\*   Field(tag, v, d, off) doc.text(v || d, x, yPosition + off)
At(tag, y, h) == [k |-> "at", tag |-> tag, pos |-> y, h |-> h, adv |-> 0, text |-> ""]
Here(tag, h, adv) == [k |-> "here", tag |-> tag, pos |-> 0, h |-> h, adv |-> adv, text |-> ""]
Below(tag, off) == [k |-> "here", tag |-> tag, pos |-> off, h |-> 0, adv |-> 0, text |-> ""]
Skip(adv) == [k |-> "skip", tag |-> "", pos |-> 0, h |-> 0, adv |-> adv, text |-> ""]
SetY(y) == [k |-> "sety", tag |-> "", pos |-> y, h |-> 0, adv |-> 0, text |-> ""]
\* Mutant of PageBreak: the threshold lies below the foot of the page only.
PageBreakAtFoot == [k |-> "rowBreak", tag |-> "", pos |-> 791, h |-> 0, adv |-> 0, text |-> ""]
PageBreak == [k |-> "pageBreak", tag |-> "", pos |-> 0, h |-> 0, adv |-> 0, text |-> ""]
Header == [k |-> "header", tag |-> "partsHeader", pos |-> 0, h |-> 20, adv |-> 25, text |-> ""]
PadWhile == [k |-> "padRows", tag |-> "padRow", pos |-> 0, h |-> 20, adv |-> 20, text |-> ""]
Field(tag, value, default, off) ==
    [k |-> "here", tag |-> tag, pos |-> off, h |-> 0, adv |-> 0, text |-> Or(value, default)]
Throw == [k |-> "throw", tag |-> "", pos |-> 0, h |-> 0, adv |-> 0, text |-> ""]

\* doc.addPage()
AddPage(d) == [d EXCEPT !.pages = @ + 1]

\* The empty-row loop of a parts table.
RECURSIVE PadLoop(_, _)
PadLoop(d, s) ==
    IF d.y < d.headerY + 100
    THEN Bind([d EXCEPT !.ops = Append(@, Op(s.tag, d.pages, d.y, s.h, s.text)), !.y = @ + s.adv],
              LAMBDA d1 : PadLoop(d1, s))
    ELSE d

\* The effect of one statement on the document.
Exec(d, s) ==
    CASE s.k = "at" -> [d EXCEPT !.ops = Append(@, Op(s.tag, d.pages, s.pos, s.h, s.text))]
      [] s.k = "here" -> [d EXCEPT !.ops = Append(@, Op(s.tag, d.pages, d.y + s.pos, s.h, s.text)),
                                   !.y = @ + s.adv]
      [] s.k = "skip" -> [d EXCEPT !.y = @ + s.adv]
      [] s.k = "sety" -> [d EXCEPT !.y = s.pos]
      [] s.k = "pageBreak" -> IF d.y > 600 THEN [AddPage(d) EXCEPT !.y = 50] ELSE d
      [] s.k = "rowBreak" -> IF d.y > s.pos THEN [AddPage(d) EXCEPT !.y = 50] ELSE d
      [] s.k = "header" -> [d EXCEPT !.ops = Append(@, Op(s.tag, d.pages, d.y, s.h, s.text)),
                                     !.headerY = d.y, !.y = @ + s.adv]
      [] s.k = "padRows" -> PadLoop(d, s)
      [] s.k = "throw" -> [d EXCEPT !.threw = TRUE]

\* The statements lo..hi run in order, the first half and then the second
\* on its result; a throw ends the try block.
RECURSIVE Run(_, _, _, _)
Run(d, stmts, lo, hi) ==
    IF lo > hi \/ d.threw THEN d
    ELSE IF lo = hi THEN Exec(d, stmts[lo])
    ELSE Bind(Run(d, stmts, lo, (lo + hi) \div 2),
              LAMBDA d1 : Run(d1, stmts, (lo + hi) \div 2 + 1, hi))

\* The executor of a composer: its statements run on a new document.
Compile(stmts) == Bind(stmts, LAMBDA ss : Run(NewDoc, ss, 1, Len(ss)))

\* if (cond) statement
When(cond, stmts) == IF cond THEN stmts ELSE <<>>

\* Mutant of LogoThrows: the inner try/catch is missing, so a failing
\* decode or doc.image reaches the outer catch.
LogoThrowsNoCatch(logo) == logo \in {"nonString", "noComma", "corrupt"}

\* Whether the logo block throws out of the composer's try block: only
\* finalObject.logo.startsWith on a non-string is outside the inner try.
LogoThrows(logo) == logo = "nonString"

\* The logo block: `if (logo && logo.startsWith('data:image')) try {...} catch {}`,
\* drawing at the absolute y.
AddLogo(logo, y, h) ==
    IF LogoThrows(logo) THEN <<Throw>>
    ELSE IF logo = "valid" THEN <<At("logo", y, h)>>
    ELSE <<>>

\* `finalObject.issuedEls && finalObject.issuedEls.trim()`: the markup is a
\* non-blank string as soon as it holds one row.
NonBlank(els) == Len(els) > 0

\* The markup with its tags stripped and blanks collapsed is non-empty when
\* some cell has text (the serial cell always has).
StrippedNonEmpty(els) == Len(els) > 0

\* The 'Issued Elements' block of the three text composers.
IssuedBlock(els) ==
    When(NonBlank(els),
         <<Here("issuedHeading", 0, 20)>>
         \o When(StrippedNonEmpty(els), <<Here("issuedText", 0, 40)>>))

\* The 'Returned Elements' block of the three text composers.
ReturnedBlock(els) ==
    When(NonBlank(els),
         <<Below("returnedHeading", 20), Skip(40)>>
         \o When(StrippedNonEmpty(els), <<Here("returnedText", 0, 40)>>))

\* `if (finalObject.tableHTML)`: the two safety lines.
SafetyBlock(tableHTML) ==
    When(tableHTML # "", <<Below("safety", 20), Below("safetyNote", 40)>>)

\* The part of the three text composers up to the tables.
TextHeader(fo) ==
    AddLogo(fo.logo, 50, 50)
    \o <<At("title", 120, 0)>>
    \o When(~Missing(fo.param.call_no), <<At("callNumber", 160, 0)>>)
    \o When(~Missing(fo.param.product_group), <<At("productGroup", 180, 0)>>)
    \o When(~Missing(fo.room.name), <<At("room", 200, 0)>>)
    \o <<SetY(240)>>

\* doc.text(`Generated on: ${new Date().toLocaleString()}`, 50, doc.page.height - 100)
Timestamp == <<[At("timestamp", PageHeight - 100, 0) EXCEPT !.text = LocaleString(cNow)]>>

generateDPGReport(fo) ==
    Compile(TextHeader(fo) \o IssuedBlock(fo.issuedEls) \o ReturnedBlock(fo.returnedEls)
            \o SafetyBlock(fo.tableHTML) \o Timestamp)

generateThermalOrPowerReport(fo) ==
    Compile(TextHeader(fo) \o IssuedBlock(fo.issuedEls) \o ReturnedBlock(fo.returnedEls)
            \o SafetyBlock(fo.tableHTML) \o Timestamp)

generateDCPSReport(fo) ==
    Compile(TextHeader(fo) \o IssuedBlock(fo.issuedEls) \o ReturnedBlock(fo.returnedEls)
            \o Timestamp)

\* The row guard of the array-based composers:
\*   if (yPosition > 700) { doc.addPage(); yPosition = 50; }
RowBreak == [k |-> "rowBreak", tag |-> "", pos |-> 700, h |-> 0, adv |-> 0, text |-> ""]

\* doc.fontSize(10).text(`${index + 1}. ${item}`, 70, yPosition); yPosition += 20;
ElementRow(els, i) ==
    [Here("elementRow", 0, 20) EXCEPT !.text = ToString(i) \o ". " \o els[i]]

\* Mutant of ElementRows: the guard runs once before the list, not before
\* every row.
ElementRowsGuardOnce(els) ==
    [j \in 1..(Len(els) + 1) |-> IF j = 1 THEN RowBreak ELSE ElementRow(els, j - 1)]

\* els.forEach((item, index) => { guard; row }): the guard before every row.
ElementRows(els) ==
    [j \in 1..(2 * Len(els)) |-> IF j % 2 = 1 THEN RowBreak ELSE ElementRow(els, j \div 2)]

\* `if (finalObject.issuedEls && finalObject.issuedEls.length > 0)` of the
\* array-based composers, an absent array being the empty one: the heading,
\* then the rows.
IssuedElements(els) ==
    When(Len(els) > 0,
         <<Here("issuedHeading", 0, 20)>> \o ElementRows(els))

\* `if (finalObject.returnedEls && finalObject.returnedEls.length > 0)`: the
\* heading at yPosition + 20, yPosition += 40, then the rows.
ReturnedElements(els) ==
    When(Len(els) > 0,
         <<Below("returnedHeading", 20), Skip(40)>> \o ElementRows(els))

\* The array-based generateDPGReport.
generateDPGReportFromArrays(fo) ==
    Compile(TextHeader(fo) \o IssuedElements(fo.issuedEls) \o ReturnedElements(fo.returnedEls)
            \o SafetyBlock(fo.tableHTML) \o Timestamp)

\* The array-based generateThermalOrPowerReport.
generateThermalOrPowerReportFromArrays(fo) ==
    Compile(TextHeader(fo) \o IssuedElements(fo.issuedEls) \o ReturnedElements(fo.returnedEls)
            \o SafetyBlock(fo.tableHTML) \o Timestamp)

\* The array-based generateDCPSReport.
generateDCPSReportFromArrays(fo) ==
    Compile(TextHeader(fo) \o IssuedElements(fo.issuedEls) \o ReturnedElements(fo.returnedEls)
            \o Timestamp)

\* The scalar fields generateAirReport reads from finalObject.paramObj.
ParamObjFields ==
    {"report_date", "customer_name", "site_name", "engineer_name", "service_type",
     "problem_statement", "start_time", "end_time", "total_time", "recommendations",
     "work_performed"}

\* `finalObject.paramObj || {}`: every field undefined.
NoParamObj == [f \in ParamObjFields |-> Undefined]

\* param.material.filter(item => item.part_activity && ...includes(tok))
AirFilter(param, tok) ==
    IF param.materialKind = "array"
    THEN SelectSeq(param.material,
                   LAMBDA item : item.part_activity # Undefined
                                 /\ Includes(ToLowerCase(item.part_activity), tok))
    ELSE <<>>

\* returnedParts.forEach / issuedParts.forEach: one bordered row of height
\* 20 per part at the cursor, then yPosition += 20.
AirRows(parts) == [index \in 1..Len(parts) |-> Here("row", 20, 20)]

\* One parts section of generateAirReport: heading, header row, data rows,
\* empty rows, then yPosition += 20.
AirPartsSection(headingTag, parts) ==
    <<Here(headingTag, 0, 25), Header>> \o AirRows(parts) \o <<PadWhile, Skip(20)>>

\* generateAirReport up to the page break in front of the parts section.
\* A table drawn at tableStartY = yPosition with yPosition = tableStartY +
\* height + gap afterwards advances the cursor by height + gap.
AirFirstPage(fo) ==
    <<SetY(50)>>
    \o AddLogo(fo.logo, 50, 40)
    \o <<Here("title", 0, 60),
         Field("callNo", fo.param.call_no, "N/A", 0),
         Field("reportDate", fo.paramObj.report_date, Today, 0),
         Here("fsrNumber", 0, 25),
         Field("customerName", fo.paramObj.customer_name, "N/A", 15 + 12),
         Field("siteName", fo.paramObj.site_name, "N/A", 45 + 12),
         Field("engineerName", fo.paramObj.engineer_name, "N/A", 75 + 12),
         Field("serviceType", fo.paramObj.service_type, "Air System Service", 15 + 12),
         Here("infoTable", 120, 120 + 20),
         Field("problemStatementText", fo.paramObj.problem_statement,
               "Air system maintenance and service performed.", 15),
         Here("problemStatement", 0, 40),
         Here("callType", 0, 35),
         Here("problemCode", 20, 40),
         Here("safety", 0, 25),
         Here("assessmentTable", 30, 30 + 20),
         Here("timeSpent", 0, 25),
         Field("startTime", fo.paramObj.start_time, "N/A", 45),
         Field("endTime", fo.paramObj.end_time, "N/A", 70),
         Field("totalTime", fo.paramObj.total_time, "N/A", 20),
         Here("timeTable", 80, 80 + 20),
         Here("callActivity", 0, 25),
         Field("recommendations", fo.paramObj.recommendations,
               "Schedule next maintenance in 6 months.", 75),
         Field("workPerformed", fo.paramObj.work_performed,
               "Air system maintenance and inspection performed.", 25),
         Here("activityTable", 120, 120 + 30)>>

\* Service Billable, the signature boxes, the footer and the timestamp.
AirTail ==
    <<Here("serviceBillable", 0, 40),
      Here("signatures", 0, 25),
      Here("signatureBox", 80, 80 + 30),
      Here("footer", 40, 0)>>
    \o Timestamp

generateAirReport(fo) ==
    Compile(AirFirstPage(fo)
            \o <<PageBreak>>
            \o AirPartsSection("partReturned", AirFilter(fo.param, "return"))
            \o AirPartsSection("partConsumed", AirFilter(fo.param, "issued"))
            \o AirTail)

\* The composer the handler's switch selects for a lower-cased product group.
Composers == {"dpg", "air", "power", "dcps"}

Compose(kind, fo) ==
    CASE kind = "dpg" -> generateDPGReport(fo)
      [] kind = "air" -> generateAirReport(fo)
      [] kind = "power" -> generateThermalOrPowerReport(fo)
      [] kind = "dcps" -> generateDCPSReport(fo)
      [] kind = "dpgArrays" -> generateDPGReportFromArrays(fo)
      [] kind = "powerArrays" -> generateThermalOrPowerReportFromArrays(fo)
      [] kind = "dcpsArrays" -> generateDCPSReportFromArrays(fo)

\* ------------------------------------------------------------------------
\* The notification.report handler: values and helpers
\* ------------------------------------------------------------------------
Methods == {"OPTIONS", "GET", "POST"}

\* req.body.product_group: absent, the four kinds (one also in upper case)
\* and a kind the switch does not know.
ProductGroups == {Undefined, "dpg", "DPG", "air", "power", "dcps", "ups"}

\* req.body.params: absent, a string that is not JSON, JSON without
\* formdata, JSON with a formdata object.
ParamsKinds == {"absent", "invalid", "noFormdata", "formdata"}

\* S3 credentials in the payload: none, an object lacking one of
\* accessKeyId / secretAccessKey / bucketName, a complete object.
PayloadCreds == {"absent", "incomplete", "complete"}

\* The process environment: no S3 variables, the FileUpload_S3_* variables,
\* or only the AWS_* variables.
EnvCreds == {"none", "fileUpload", "aws"}

HandlerPool ==
    { Part("Issued", "P1", "D1", "S1", "2"),
      Part("Issued/Returned", "P3", "D3", "S3", "1"),
      Part(Undefined, "P7", "D7", "S7", "1") }

HandlerMaterials ==
    { [materialKind |-> "array", material |-> m] : m \in SeqsUpTo(HandlerPool, MaxHandlerLen) }
    \cup { [materialKind |-> k, material |-> <<>>] : k \in MaterialKinds \ {"array"} }

Bodies ==
    { [product_group |-> pg, call_no |-> cn, materialKind |-> m.materialKind,
       material |-> m.material, params |-> ps, s3Credentials |-> sc,
       useServerlessReports |-> us, dontSentEmail |-> de, returnDirectPDF |-> rd]
      : pg \in ProductGroups, cn \in {Undefined, "CALL-001"}, m \in HandlerMaterials,
        ps \in ParamsKinds, sc \in PayloadCreds, us \in BOOLEAN, de \in BOOLEAN,
        rd \in BOOLEAN }

\* paramObj?.formdata
FormdataOf(body) == IF body.params = "formdata" THEN "object" ELSE Undefined

generateSafetyTable(formdata) ==
    IF formdata = Undefined \/ formdata # "object" THEN "" ELSE "<table>"

\* The logo constant of the handler: a valid 1x1 PNG data URI.
HandlerLogo == "valid"

\* Mutant of SelectComposer: an unknown kind silently falls back to dpg.
SelectComposerFallback(product_group) ==
    IF ToLowerCase(product_group) \in {"dpg", "air", "power", "dcps"}
    THEN ToLowerCase(product_group)
    ELSE "dpg"

\* switch (param.product_group.toLowerCase()): the case taken, or "default".
SelectComposer(product_group) ==
    IF ToLowerCase(product_group) \in {"dpg", "air", "power", "dcps"}
    THEN ToLowerCase(product_group)
    ELSE "default"

\* const finalObject = { param, room, paramObj, logo, tableHTML, returnedEls, issuedEls };
\* the parsed params carry none of the scalar fields here.
FinalObjectOf(body) ==
    LET tables == generatePartReturnedAndConsumedTable(body, 3, FALSE)
    IN  [param |-> body,
         room |-> [name |-> IF body.call_no = Undefined THEN "general" ELSE ToLowerCase(body.call_no)],
         paramObj |-> NoParamObj,
         logo |-> HandlerLogo,
         tableHTML |-> IF ToLowerCase(body.product_group) # "dcps"
                       THEN generateSafetyTable(FormdataOf(body)) ELSE "",
         issuedEls |-> tables.issuedEls,
         returnedEls |-> tables.returnedEls]

\* What throws between `try {` and the switch: JSON.parse of params, the
\* table function, product_group.toLowerCase() on undefined, the default case.
EntryThrows(body) ==
    \/ body.params = "invalid"
    \/ generatePartReturnedAndConsumedTable(body, 3, FALSE).threw
    \/ body.product_group = Undefined
    \/ SelectComposer(body.product_group) = "default"

\* s3Credentials as resolved at the top of the handler: the payload's, else
\* the FileUpload_S3_* environment variables, else undefined.
ResolvedCreds(body, environment) ==
    IF body.s3Credentials # "absent" THEN body.s3Credentials
    ELSE IF environment = "fileUpload" THEN "complete"
    ELSE "absent"

\* A response: the status, the method of res that sent it (end/json/send),
\* the success field ("none" when absent), the PDF carried ("none",
\* "base64", "raw") and whether an etag is reported.
Response(status, via, success, pdf, etag) ==
    [status |-> status, via |-> via, success |-> success, pdf |-> pdf, etag |-> etag]

ErrorResponse == Response(500, "json", "false", "none", FALSE)

\* The PDF returned in the body when nothing was uploaded.
PdfResponse(body) ==
    IF body.returnDirectPDF
    THEN Response(200, "send", "none", "raw", FALSE)
    ELSE Response(200, "json", "true", "base64", FALSE)

NoBuffer == [set |-> FALSE, doc |-> NewDoc]


\* ------------------------------------------------------------------------
\* State
\* ------------------------------------------------------------------------
VARIABLES
    tParam,      \* argument param of a direct call of the table function
    tDefault,    \* argument defaultValue
    tOnepm,      \* argument isOnepmFSR
    tPc,         \* "ready" before the call, "returned" / "threw" after it
    tOut,        \* the returned { issuedEls, returnedEls }
    tRows,       \* the <tr> rows generatePartsTableRows made of issuedEls and returnedEls
    cKind,       \* the composer called directly
    cFo,         \* its finalObject
    cPc,         \* its promise: "ready" (not called), "pending", "resolved", "rejected"
    cWhy,        \* why it rejected: "none", "throw" (drawing threw), "error" (doc 'error')
    cDoc,        \* the document it drew
    cTotal,      \* the number of 'data' chunks the document stream will emit
    cBuffers,    \* buffers: the chunks pushed by the 'data' listener, in order
    cValue,      \* the value the promise resolved with (<<>> while there is none)
    cReruns,     \* how often the composer was invoked again with the same finalObject
    cPrev,       \* the draw operations of the invocation before this one
    req,         \* the HTTP request being handled: [method, body]
    env,         \* the S3 variables of the process environment
    hPc,         \* where the handler is: "start", an await, or "done"
    hRes,        \* the responses sent on res, in order
    hGenCalls,   \* the generate*Report invocations so far, in order
    hGen,        \* the document of the generator call being awaited
    hBuf,        \* bufferContent
    hPuts,       \* the PutObject commands sent: the credentials of the client, the result
    hEmails,     \* the number of sendv1PDFEmail invocations
    bBrowser,    \* this.browser of the ReportGenerationHelper singleton: 0 is null
    bLaunched,   \* the number of browsers launched so far; they are numbered from 1
    bOpen,       \* the browsers launched and not closed
    bPc,         \* per caller: "idle" or the await its call is suspended at
    bOp,         \* per caller: the operation of its current or last call
    bOut,        \* per caller: "none" while the call runs, then "returned" or "threw"
    bPage,       \* per caller: the browser its call has a page open on, 0 for none
    bOwn,        \* per caller: the browser its call launched or is closing, 0 for none
    bCalls       \* the number of calls started

tableVars == <<tParam, tDefault, tOnepm, tPc, tOut, tRows>>
composeVars == <<cKind, cFo, cPc, cWhy, cDoc, cTotal, cBuffers, cValue, cNow, cReruns, cPrev>>
handlerVars == <<req, env, hPc, hRes, hGenCalls, hGen, hBuf, hPuts, hEmails>>
helperVars == <<bBrowser, bLaunched, bOpen, bPc, bOp, bOut, bPage, bOwn, bCalls>>
vars == <<tParam, tDefault, tOnepm, tPc, tOut, tRows, cKind, cFo, cPc, cWhy, cDoc,
          cTotal, cBuffers, cValue, cNow, cReruns, cPrev,
          req, env, hPc, hRes, hGenCalls, hGen, hBuf, hPuts, hEmails,
          bBrowser, bLaunched, bOpen, bPc, bOp, bOut, bPage, bOwn, bCalls>>

NoTables == [threw |-> FALSE, issuedEls |-> <<>>, returnedEls |-> <<>>]
NoRows == [issued |-> <<>>, returned |-> <<>>]

TableParams ==
    { [materialKind |-> "array", material |-> m] : m \in SeqsUpTo(PartPool, MaxLen) }
    \cup { [materialKind |-> k, material |-> <<>>] : k \in MaterialKinds \ {"array"} }

\* No table call in progress.
TableIdle ==
    /\ tParam = [materialKind |-> "absent", material |-> <<>>]
    /\ tDefault = 3
    /\ tOnepm = FALSE
    /\ tPc = "idle"
    /\ tOut = NoTables
    /\ tRows = NoRows

\* No direct composer call in progress.
ComposeIdle ==
    /\ cKind = "dpg"
    /\ cFo = <<>>
    /\ cPc = "idle"
    /\ cWhy = "none"
    /\ cDoc = NewDoc
    /\ cTotal = 0
    /\ cBuffers = <<>>
    /\ cValue = <<>>
    /\ cNow = 0
    /\ cReruns = 0
    /\ cPrev = <<>>

\* The callers of the browser helper.
Callers == 1..MaxCallers

\* The helper as constructed (`this.browser = null`), with no call made.
HelperIdle ==
    /\ bBrowser = 0
    /\ bLaunched = 0
    /\ bOpen = {}
    /\ bPc = [p \in Callers |-> "idle"]
    /\ bOp = [p \in Callers |-> "none"]
    /\ bOut = [p \in Callers |-> "none"]
    /\ bPage = [p \in Callers |-> 0]
    /\ bOwn = [p \in Callers |-> 0]
    /\ bCalls = 0

\* No request being handled.
HandlerIdle ==
    /\ req = [method |-> "none", body |-> <<>>]
    /\ env = "none"
    /\ hPc = "idle"
    /\ hRes = <<>>
    /\ hGenCalls = <<>>
    /\ hGen = NewDoc
    /\ hBuf = NoBuffer
    /\ hPuts = <<>>
    /\ hEmails = 0

TableInit ==
    /\ tParam \in TableParams
    /\ tDefault \in 0..MaxDefault
    /\ tOnepm \in BOOLEAN
    /\ tPc = "ready"
    /\ tOut = NoTables
    /\ tRows = NoRows
    /\ ComposeIdle
    /\ HandlerIdle
    /\ HelperIdle

\* A call generatePartReturnedAndConsumedTable(param, defaultValue, isOnepmFSR).
TableCall ==
    /\ tPc = "ready"
    /\ LET out == generatePartReturnedAndConsumedTable(tParam, tDefault, tOnepm)
       IN  /\ tOut' = out
           /\ tPc' = IF out.threw THEN "threw" ELSE "returned"
    /\ UNCHANGED <<tParam, tDefault, tOnepm, tRows>>
    /\ UNCHANGED composeVars
    /\ UNCHANGED handlerVars
    /\ UNCHANGED helperVars

\* The parts tables of the HTML template: generatePartsTableRows applied to
\* the issuedEls and the returnedEls of the finalObject.
PartsRowsCall ==
    /\ tPc = "returned"
    /\ tRows' = [issued |-> generatePartsTableRows(tOut.issuedEls),
                 returned |-> generatePartsTableRows(tOut.returnedEls)]
    /\ tPc' = "rows"
    /\ UNCHANGED <<tParam, tDefault, tOnepm, tOut>>
    /\ UNCHANGED composeVars
    /\ UNCHANGED handlerVars
    /\ UNCHANGED helperVars

TableNext == TableCall \/ PartsRowsCall

SpecTable == TableInit /\ [][TableNext]_vars

\* ------------------------------------------------------------------------
\* Direct calls of the composers
\* ------------------------------------------------------------------------
Repeat(x, n) == [i \in 1..n |-> x]

\* A material array of nRet returned parts followed by nIss issued parts.
PartsList(nRet, nIss) ==
    Repeat(Part("Returned", "P2", "D2", "S2", "1"), nRet)
    \o Repeat(Part("Issued", "P1", "D1", "S1", "2"), nIss)

ComposeParams ==
    { [call_no |-> "CALL-001", product_group |-> "air", materialKind |-> "array",
       material |-> PartsList(nRet, nIss)] : nRet \in 0..MaxParts, nIss \in 0..MaxParts }
    \cup { [call_no |-> Undefined, product_group |-> Undefined, materialKind |-> k,
            material |-> <<>>] : k \in {"absent", "object"} }

\* paramObj as parsed from params: no field, every field an empty string,
\* every field filled, or one field filled.
ParamObjs ==
    { [f \in ParamObjFields |-> v] : v \in {"", "text"} }
    \cup { [NoParamObj EXCEPT ![g] = "text"] : g \in ParamObjFields }

\* The finalObject the handler builds around a param (lines 635-643), for any
\* logo and either value of tableHTML.
FinalObjects ==
    { [param |-> p,
       room |-> [name |-> IF p.call_no = Undefined THEN "general" ELSE ToLowerCase(p.call_no)],
       paramObj |-> NoParamObj,
       logo |-> l,
       tableHTML |-> t,
       issuedEls |-> generatePartReturnedAndConsumedTable(p, 3, FALSE).issuedEls,
       returnedEls |-> generatePartReturnedAndConsumedTable(p, 3, FALSE).returnedEls]
      : p \in ComposeParams, l \in LogoKinds, t \in {"", "<table>"} }
    \cup { [param |-> p,
            room |-> [name |-> "general"],
            paramObj |-> po,
            logo |-> "absent",
            tableHTML |-> "",
            issuedEls |-> generatePartReturnedAndConsumedTable(p, 3, FALSE).issuedEls,
            returnedEls |-> generatePartReturnedAndConsumedTable(p, 3, FALSE).returnedEls]
          : p \in { [call_no |-> c, product_group |-> "air", materialKind |-> "absent",
                     material |-> <<>>] : c \in {Undefined, "", "CALL-001"} },
            po \in ParamObjs }

ComposeInit ==
    /\ cKind \in Composers
    /\ cFo \in FinalObjects
    /\ cPc = "ready"
    /\ cWhy = "none"
    /\ cDoc = NewDoc
    /\ cTotal = 0
    /\ cBuffers = <<>>
    /\ cValue = <<>>
    /\ cNow = 0
    /\ cReruns = 0
    /\ cPrev = <<>>
    /\ TableIdle
    /\ HandlerIdle
    /\ HelperIdle

\* The promise executor: the whole try block runs synchronously, up to
\* doc.end() or to the catch that rejects. After doc.end() the stream emits
\* its output in some number of 'data' chunks.
ComposerRun ==
    /\ cPc = "ready"
    /\ LET d == Compose(cKind, cFo)
       IN  /\ cDoc' = d
           /\ cPc' = IF d.threw THEN "rejected" ELSE "pending"
           /\ cWhy' = IF d.threw THEN "throw" ELSE "none"
           /\ IF d.threw THEN cTotal' = 0 ELSE cTotal' \in 1..MaxChunks
    /\ UNCHANGED <<cKind, cFo, cBuffers, cValue>>
    /\ UNCHANGED <<cNow, cReruns, cPrev>>
    /\ UNCHANGED <<tableVars, handlerVars, helperVars>>

\* doc.on('data', buffers.push.bind(buffers))
DocData ==
    /\ cPc = "pending"
    /\ Len(cBuffers) < cTotal
    /\ cBuffers' = Append(cBuffers, Len(cBuffers) + 1)
    /\ UNCHANGED <<cKind, cFo, cPc, cWhy, cDoc, cTotal, cValue>>
    /\ UNCHANGED <<cNow, cReruns, cPrev>>
    /\ UNCHANGED <<tableVars, handlerVars, helperVars>>

\* Mutant of DocEnd: the promise resolves as soon as the first chunk is in.
DocEndPartial ==
    /\ cPc = "pending"
    /\ Len(cBuffers) >= 1
    /\ cPc' = "resolved"
    /\ cValue' = cBuffers
    /\ UNCHANGED <<cKind, cFo, cWhy, cDoc, cTotal, cBuffers>>
    /\ UNCHANGED <<cNow, cReruns, cPrev>>
    /\ UNCHANGED <<tableVars, handlerVars, helperVars>>

\* doc.on('end', ...): the stream ends after its last chunk and the promise
\* resolves with Buffer.concat(buffers).
DocEnd ==
    /\ cPc = "pending"
    /\ Len(cBuffers) = cTotal
    /\ cPc' = "resolved"
    /\ cValue' = cBuffers
    /\ UNCHANGED <<cKind, cFo, cWhy, cDoc, cTotal, cBuffers>>
    /\ UNCHANGED <<cNow, cReruns, cPrev>>
    /\ UNCHANGED <<tableVars, handlerVars, helperVars>>

\* doc.on('error', reject): the stream fails before it ended.
DocError ==
    /\ cPc = "pending"
    /\ cPc' = "rejected"
    /\ cWhy' = "error"
    /\ UNCHANGED <<cKind, cFo, cDoc, cTotal, cBuffers, cValue>>
    /\ UNCHANGED <<cNow, cReruns, cPrev>>
    /\ UNCHANGED <<tableVars, handlerVars, helperVars>>

ComposeNext == ComposerRun \/ DocData \/ DocEnd \/ DocError

SpecCompose == ComposeInit /\ [][ComposeNext]_vars

\* A second passes.
Tick ==
    /\ cNow < MaxClock
    /\ cNow' = cNow + 1
    /\ UNCHANGED <<cKind, cFo, cPc, cWhy, cDoc, cTotal, cBuffers, cValue, cReruns, cPrev>>
    /\ UNCHANGED <<tableVars, handlerVars, helperVars>>

\* The caller invokes the same composer again with the same finalObject
\* after the promise of the previous invocation has resolved.
Reinvoke ==
    /\ cPc = "resolved"
    /\ cReruns < MaxReruns
    /\ cReruns' = cReruns + 1
    /\ cPrev' = cDoc.ops
    /\ cPc' = "ready"
    /\ cDoc' = NewDoc
    /\ cTotal' = 0
    /\ cBuffers' = <<>>
    /\ cValue' = <<>>
    /\ UNCHANGED <<cKind, cFo, cWhy, cNow>>
    /\ UNCHANGED <<tableVars, handlerVars, helperVars>>

\* The finalObjects with at most one part.
SmallFinalObjects == { fo \in FinalObjects : Len(fo.param.material) <= 1 }

RecomposeInit ==
    /\ cKind \in Composers
    /\ cFo \in SmallFinalObjects
    /\ cPc = "ready"
    /\ cWhy = "none"
    /\ cDoc = NewDoc
    /\ cTotal = 0
    /\ cBuffers = <<>>
    /\ cValue = <<>>
    /\ cNow = 0
    /\ cReruns = 0
    /\ cPrev = <<>>
    /\ TableIdle
    /\ HandlerIdle
    /\ HelperIdle

RecomposeNext == ComposerRun \/ DocData \/ DocEnd \/ DocError \/ Tick \/ Reinvoke

\* Composer invocations repeated over time.
SpecRecompose == RecomposeInit /\ [][RecomposeNext]_vars

\* The array-based composers.
ArrayComposers == {"dpgArrays", "powerArrays", "dcpsArrays"}

\* finalObjects whose issuedEls and returnedEls are arrays of strings of any
\* length up to MaxRows.
ArrayFinalObjects ==
    { [param |-> [call_no |-> "CALL-001", product_group |-> "air"],
       room |-> [name |-> "call-001"],
       logo |-> l,
       tableHTML |-> IF l = "valid" THEN "<table>" ELSE "",
       issuedEls |-> Repeat("P1 - D1", nIss),
       returnedEls |-> Repeat("P2 - D2", nRet)]
      : l \in {"absent", "valid", "nonString"},
        nIss \in 0..MaxRows, nRet \in 0..MaxRows }
    \cup { [param |-> [call_no |-> Undefined, product_group |-> Undefined],
            room |-> [name |-> Undefined],
            logo |-> "absent",
            tableHTML |-> "",
            issuedEls |-> <<>>,
            returnedEls |-> r]
          : r \in {<<>>, Repeat("P2 - D2", MaxRows)} }

ArrayComposeInit ==
    /\ cKind \in ArrayComposers
    /\ cFo \in ArrayFinalObjects
    /\ cPc = "ready"
    /\ cWhy = "none"
    /\ cDoc = NewDoc
    /\ cTotal = 0
    /\ cBuffers = <<>>
    /\ cValue = <<>>
    /\ cNow = 0
    /\ cReruns = 0
    /\ cPrev = <<>>
    /\ TableIdle
    /\ HandlerIdle
    /\ HelperIdle

ArrayComposeNext == ComposerRun \/ DocData \/ DocEnd \/ DocError

\* One invocation of an array-based composer.
SpecArrayCompose == ArrayComposeInit /\ [][ArrayComposeNext]_vars

\* ------------------------------------------------------------------------
\* The notification.report handler (api/notification.report.js:547-860)
\* ------------------------------------------------------------------------
HandlerInit ==
    /\ req \in { [method |-> m, body |-> b] : m \in Methods, b \in Bodies }
    /\ env \in EnvCreds
    /\ hPc = "start"
    /\ hRes = <<>>
    /\ hGenCalls = <<>>
    /\ hGen = NewDoc
    /\ hBuf = NoBuffer
    /\ hPuts = <<>>
    /\ hEmails = 0
    /\ TableIdle
    /\ ComposeIdle
    /\ HelperIdle

\* Mutant of Finish: the handler does not return after its response, and the
\* outer catch answers a second time.
FinishNoReturn(response) ==
    /\ hRes' = hRes \o <<response, ErrorResponse>>
    /\ hPc' = "done"

\* res.status(..).end/json/send, after which the handler returns.
Finish(response) ==
    /\ hRes' = Append(hRes, response)
    /\ hPc' = "done"

\* A call of the generator the switch selects: its executor draws the whole
\* document synchronously; the handler then awaits the promise at `at`.
InvokeGenerator(at) ==
    LET kind == SelectComposer(req.body.product_group)
    IN  /\ hGenCalls' = Append(hGenCalls, kind)
        /\ hGen' = Compose(kind, FinalObjectOf(req.body))
        /\ hPc' = at

\* Mutant of IsPost: the method is not tested.
IsPostAlways(method) == TRUE

\* `if (req.method !== 'POST')` answers 405.
IsPost(method) == method = "POST"

\* Mutant of SendsEmail: the flag is not consulted.
SendsEmailAlways(body) == TRUE

\* `if (!param.dontSentEmail && !param.dont_sent_email)`
SendsEmail(body) == ~body.dontSentEmail

\* The PutObject command of s3FSRFileOpertations: its client is built from
\* the credentials and bucket of the process environment; the result is
\* "pending", then "ok", "noEtag" or "failed".
PutObject(environment) == [creds |-> environment, result |-> "pending"]

\* Lines 743-850 up to the first await: respond with the PDF when the
\* resolved credentials are missing or incomplete; otherwise
\* s3FSRFileOpertations('post', ...) builds its client from the environment
\* (throwing when the environment has no credentials) and sends PutObject.
LocalPath ==
    IF ResolvedCreds(req.body, env) # "complete"
    THEN Finish(PdfResponse(req.body)) /\ UNCHANGED hPuts
    ELSE IF env = "none"
    THEN Finish(PdfResponse(req.body)) /\ UNCHANGED hPuts
    ELSE /\ hPuts' = Append(hPuts, PutObject(env))
         /\ hPc' = "upload"
         /\ UNCHANGED hRes

\* Lines 694-741 after bufferContent is set: the serverless service (which
\* calls the generator again) when requested, else the local path.
AfterGenerated ==
    IF req.body.useServerlessReports
    THEN InvokeGenerator("slsGen") /\ UNCHANGED <<hRes, hPuts>>
    ELSE LocalPath /\ UNCHANGED <<hGenCalls, hGen>>

\* From the entry of the handler to its first await (or to its response).
HandlerEntry ==
    /\ hPc = "start"
    /\ IF req.method = "OPTIONS"
       THEN Finish(Response(200, "end", "none", "none", FALSE)) /\ UNCHANGED <<hGenCalls, hGen>>
       ELSE IF ~IsPost(req.method)
       THEN Finish(Response(405, "json", "none", "none", FALSE)) /\ UNCHANGED <<hGenCalls, hGen>>
       ELSE IF EntryThrows(req.body)
       THEN Finish(ErrorResponse) /\ UNCHANGED <<hGenCalls, hGen>>
       ELSE InvokeGenerator("gen1") /\ UNCHANGED hRes
    /\ UNCHANGED <<req, env, hBuf, hPuts, hEmails>>
    /\ UNCHANGED <<tableVars, composeVars, helperVars>>

\* The first generator promise resolves (doc 'end').
Gen1Resolved ==
    /\ hPc = "gen1" /\ ~hGen.threw
    /\ hBuf' = [set |-> TRUE, doc |-> hGen]
    /\ AfterGenerated
    /\ UNCHANGED <<req, env, hEmails>>
    /\ UNCHANGED <<tableVars, composeVars, helperVars>>

\* The first generator promise rejects: the catch waits one second.
Gen1Rejected ==
    /\ hPc = "gen1"
    /\ hPc' = "delay"
    /\ UNCHANGED <<req, env, hRes, hGenCalls, hGen, hBuf, hPuts, hEmails>>
    /\ UNCHANGED <<tableVars, composeVars, helperVars>>

\* The timer fires: the generator is called a second time.
RetryAfterDelay ==
    /\ hPc = "delay"
    /\ InvokeGenerator("gen2")
    /\ UNCHANGED <<req, env, hRes, hBuf, hPuts, hEmails>>
    /\ UNCHANGED <<tableVars, composeVars, helperVars>>

Gen2Resolved ==
    /\ hPc = "gen2" /\ ~hGen.threw
    /\ hBuf' = [set |-> TRUE, doc |-> hGen]
    /\ AfterGenerated
    /\ UNCHANGED <<req, env, hEmails>>
    /\ UNCHANGED <<tableVars, composeVars, helperVars>>

\* The retry rejects too: the outer catch answers 500.
Gen2Rejected ==
    /\ hPc = "gen2"
    /\ Finish(ErrorResponse)
    /\ UNCHANGED <<req, env, hGenCalls, hGen, hBuf, hPuts, hEmails>>
    /\ UNCHANGED <<tableVars, composeVars, helperVars>>

\* callServerlessReportsService returns its simulated result: the email is
\* sent unless disabled, then the 200 response with the simulated etag.
SlsGenResolved ==
    /\ hPc = "slsGen" /\ ~hGen.threw
    /\ IF SendsEmail(req.body)
       THEN /\ hEmails' = hEmails + 1
            /\ hPc' = "slsEmail"
            /\ UNCHANGED hRes
       ELSE /\ Finish(Response(200, "json", "true", "none", TRUE))
            /\ UNCHANGED hEmails
    /\ UNCHANGED <<req, env, hGenCalls, hGen, hBuf, hPuts>>
    /\ UNCHANGED <<tableVars, composeVars, helperVars>>

\* callServerlessReportsService throws: fall back to the local path.
SlsGenRejected ==
    /\ hPc = "slsGen"
    /\ LocalPath
    /\ UNCHANGED <<req, env, hGenCalls, hGen, hBuf, hEmails>>
    /\ UNCHANGED <<tableVars, composeVars, helperVars>>

SlsEmailDone ==
    /\ hPc = "slsEmail"
    /\ Finish(Response(200, "json", "true", "none", TRUE))
    /\ UNCHANGED <<req, env, hGenCalls, hGen, hBuf, hPuts, hEmails>>
    /\ UNCHANGED <<tableVars, composeVars, helperVars>>

SetLastPut(result) == [hPuts EXCEPT ![Len(hPuts)].result = result]

\* PutObject succeeded and returned an ETag.
UploadOk ==
    /\ hPc = "upload"
    /\ hPuts' = SetLastPut("ok")
    /\ IF SendsEmail(req.body)
       THEN /\ hEmails' = hEmails + 1
            /\ hPc' = "localEmail"
            /\ UNCHANGED hRes
       ELSE /\ Finish(Response(200, "json", "true", "none", TRUE))
            /\ UNCHANGED hEmails
    /\ UNCHANGED <<req, env, hGenCalls, hGen, hBuf>>
    /\ UNCHANGED <<tableVars, composeVars, helperVars>>

\* PutObject succeeded without ETag or Location: `if (!etag)`.
UploadNoEtag ==
    /\ hPc = "upload"
    /\ hPuts' = SetLastPut("noEtag")
    /\ Finish(Response(200, "json", "true", "base64", FALSE))
    /\ UNCHANGED <<req, env, hGenCalls, hGen, hBuf, hEmails>>
    /\ UNCHANGED <<tableVars, composeVars, helperVars>>

\* PutObject failed: the uploadError catch returns the PDF itself.
UploadFailed ==
    /\ hPc = "upload"
    /\ hPuts' = SetLastPut("failed")
    /\ Finish(PdfResponse(req.body))
    /\ UNCHANGED <<req, env, hGenCalls, hGen, hBuf, hEmails>>
    /\ UNCHANGED <<tableVars, composeVars, helperVars>>

LocalEmailDone ==
    /\ hPc = "localEmail"
    /\ Finish(Response(200, "json", "true", "none", TRUE))
    /\ UNCHANGED <<req, env, hGenCalls, hGen, hBuf, hPuts, hEmails>>
    /\ UNCHANGED <<tableVars, composeVars, helperVars>>

HandlerNext ==
    \/ HandlerEntry
    \/ Gen1Resolved \/ Gen1Rejected \/ RetryAfterDelay \/ Gen2Resolved \/ Gen2Rejected
    \/ SlsGenResolved \/ SlsGenRejected \/ SlsEmailDone
    \/ UploadOk \/ UploadNoEtag \/ UploadFailed \/ LocalEmailDone

SpecHandler == HandlerInit /\ [][HandlerNext]_vars

\* ------------------------------------------------------------------------
\* The Puppeteer helper (ReportGenerationHelper) and the simple-report handler
\* ------------------------------------------------------------------------
\* The operations a caller runs:
\*   html   - reportGenerationHelper.generatePDFFromHTML
\*   dpg    - reportGenerationHelper.generateDPGReport (also the shape of
\*            generateThermalOrPowerReport and generateDCPSReport)
\*   close  - reportGenerationHelper.closeBrowser
\*   simple - the handler of api/simple-report.js, which launches a browser
\*            of its own
HelperOps == {"html", "dpg", "close", "simple"}

HelperInit ==
    /\ HelperIdle
    /\ TableIdle
    /\ ComposeIdle
    /\ HandlerIdle

\* Mutant of NeedsLaunch: initializeBrowser without its `if (this.browser) return`.
NeedsLaunchAlways(browser) == TRUE

\* initializeBrowser launches only when this.browser is null.
NeedsLaunch(browser) == browser = 0

\* The call ends: it returns or throws to its caller.
EndCall(p, out) ==
    /\ bPc' = [bPc EXCEPT ![p] = "idle"]
    /\ bOut' = [bOut EXCEPT ![p] = out]

\* No call is in progress.
Sequential == \A q \in Callers : bPc[q] = "idle"

\* A caller starts an operation, which runs up to its first await.
HelperCall(p, op) ==
    /\ bPc[p] = "idle"
    /\ bCalls < MaxCalls
    /\ bCalls' = bCalls + 1
    /\ bOp' = [bOp EXCEPT ![p] = op]
    /\ bPage' = [bPage EXCEPT ![p] = 0]
    /\ IF op = "close"
       THEN IF bBrowser # 0
            THEN /\ bPc' = [bPc EXCEPT ![p] = "closing"]
                 /\ bOut' = [bOut EXCEPT ![p] = "none"]
                 /\ bOwn' = [bOwn EXCEPT ![p] = bBrowser]
            ELSE /\ EndCall(p, "returned")
                 /\ bOwn' = [bOwn EXCEPT ![p] = 0]
       ELSE /\ bPc' = [bPc EXCEPT ![p] = IF op = "simple" \/ NeedsLaunch(bBrowser)
                                         THEN "launch" ELSE "newPage"]
            /\ bOut' = [bOut EXCEPT ![p] = "none"]
            /\ bOwn' = [bOwn EXCEPT ![p] = 0]
    /\ UNCHANGED <<bBrowser, bLaunched, bOpen>>
    /\ UNCHANGED <<tableVars, composeVars, handlerVars>>

\* puppeteer.launch resolves: the helper stores the browser in this.browser,
\* the simple-report handler in its local `browser`.
LaunchOk(p) ==
    /\ bPc[p] = "launch"
    /\ bLaunched' = bLaunched + 1
    /\ bOpen' = bOpen \cup {bLaunched + 1}
    /\ IF bOp[p] = "simple"
       THEN bOwn' = [bOwn EXCEPT ![p] = bLaunched + 1] /\ UNCHANGED bBrowser
       ELSE bBrowser' = bLaunched + 1 /\ UNCHANGED bOwn
    /\ bPc' = [bPc EXCEPT ![p] = "newPage"]
    /\ UNCHANGED <<bOp, bOut, bPage, bCalls>>
    /\ UNCHANGED <<tableVars, composeVars, handlerVars>>

\* puppeteer.launch rejects: initializeBrowser rethrows, the simple-report
\* handler answers 500.
LaunchFail(p) ==
    /\ bPc[p] = "launch"
    /\ EndCall(p, "threw")
    /\ UNCHANGED <<bBrowser, bLaunched, bOpen, bOp, bPage, bOwn, bCalls>>
    /\ UNCHANGED <<tableVars, composeVars, handlerVars>>

\* The browser the call opens its page on.
BrowserOf(p) == IF bOp[p] = "simple" THEN bOwn[p] ELSE bBrowser

\* browser.newPage() resolves.
NewPageOk(p) ==
    /\ bPc[p] = "newPage"
    /\ BrowserOf(p) # 0
    /\ bPage' = [bPage EXCEPT ![p] = BrowserOf(p)]
    /\ bPc' = [bPc EXCEPT ![p] = "render"]
    /\ UNCHANGED <<bBrowser, bLaunched, bOpen, bOp, bOut, bOwn, bCalls>>
    /\ UNCHANGED <<tableVars, composeVars, handlerVars>>

\* browser.newPage() rejects (or this.browser is null): no page was opened
\* and the call fails; the simple-report handler does not close its browser.
NewPageFail(p) ==
    /\ bPc[p] = "newPage"
    /\ EndCall(p, "threw")
    /\ UNCHANGED <<bBrowser, bLaunched, bOpen, bOp, bPage, bOwn, bCalls>>
    /\ UNCHANGED <<tableVars, composeVars, handlerVars>>

\* Loading the template, setContent and the PDF rendering succeed; the page
\* (for simple-report the browser) is closed and the buffer returned.
RenderOk(p) ==
    /\ bPc[p] = "render"
    /\ bPage' = [bPage EXCEPT ![p] = 0]
    /\ IF bOp[p] = "simple"
       THEN bOpen' = bOpen \ {bOwn[p]} /\ bOwn' = [bOwn EXCEPT ![p] = 0]
       ELSE UNCHANGED <<bOpen, bOwn>>
    /\ EndCall(p, "returned")
    /\ UNCHANGED <<bBrowser, bLaunched, bOp, bCalls>>
    /\ UNCHANGED <<tableVars, composeVars, handlerVars>>

\* One of them fails: generatePDFFromHTML closes the page in its finally;
\* generateDPGReport and the simple-report handler go straight to their catch.
RenderFail(p) ==
    /\ bPc[p] = "render"
    /\ bPage' = [bPage EXCEPT ![p] = IF bOp[p] = "html" THEN 0 ELSE @]
    /\ EndCall(p, "threw")
    /\ UNCHANGED <<bBrowser, bLaunched, bOpen, bOp, bOwn, bCalls>>
    /\ UNCHANGED <<tableVars, composeVars, handlerVars>>

\* closeBrowser: `await this.browser.close()` resolves, then this.browser = null.
CloseOk(p) ==
    /\ bPc[p] = "closing"
    /\ bOpen' = bOpen \ {bOwn[p]}
    /\ bBrowser' = 0
    /\ bOwn' = [bOwn EXCEPT ![p] = 0]
    /\ EndCall(p, "returned")
    /\ UNCHANGED <<bLaunched, bOp, bPage, bCalls>>
    /\ UNCHANGED <<tableVars, composeVars, handlerVars>>

\* browser.close() rejects: closeBrowser throws before the assignment.
CloseFail(p) ==
    /\ bPc[p] = "closing"
    /\ bOwn' = [bOwn EXCEPT ![p] = 0]
    /\ EndCall(p, "threw")
    /\ UNCHANGED <<bBrowser, bLaunched, bOpen, bOp, bPage, bCalls>>
    /\ UNCHANGED <<tableVars, composeVars, handlerVars>>

\* The calls made one after the other, each awaited before the next.
HelperSeqNext ==
    \E p \in Callers :
        \/ \E op \in HelperOps : Sequential /\ HelperCall(p, op)
        \/ LaunchOk(p) \/ LaunchFail(p)
        \/ NewPageOk(p) \/ NewPageFail(p)
        \/ RenderOk(p) \/ RenderFail(p)
        \/ CloseOk(p) \/ CloseFail(p)

SpecHelperSeq == HelperInit /\ [][HelperSeqNext]_vars

\* The calls of concurrent requests on the one exported instance: a call may
\* start while others are suspended at an await.
HelperNext ==
    \E p \in Callers :
        \/ \E op \in HelperOps : HelperCall(p, op)
        \/ LaunchOk(p) \/ LaunchFail(p)
        \/ NewPageOk(p) \/ NewPageFail(p)
        \/ RenderOk(p) \/ RenderFail(p)
        \/ CloseOk(p) \/ CloseFail(p)

SpecHelper == HelperInit /\ [][HelperNext]_vars


\* ------------------------------------------------------------------------
\* Properties of generatePartReturnedAndConsumedTable
\* ------------------------------------------------------------------------
Max(a, b) == IF a > b THEN a ELSE b

RealRows(els) == SelectSeq(els, LAMBDA r : ~r.pad)

IssuedOf(material) == SelectSeq(material, MatchesIssued)
ReturnedOf(material) == SelectSeq(material, MatchesReturn)

\* The list the function scans: param.material, or under isOnepmFSR the
\* entries its cap admits.
ScannedList ==
    IF tParam.materialKind # "array" THEN <<>>
    ELSE IF tOnepm THEN OnepmFilter(tParam.material, 1, 0, 0, <<>>).arr
    ELSE tParam.material

\* C1: whenever the function returns, the issued table has exactly
\* max(number of scanned entries matching 'issued', defaultValue) rows and
\* the returned table max(number matching 'return', defaultValue) rows.
C1_PaddingInvariant ==
    tPc = "returned" =>
        /\ Len(tOut.issuedEls) = Max(Len(IssuedOf(ScannedList)), tDefault)
        /\ Len(tOut.returnedEls) = Max(Len(ReturnedOf(ScannedList)), tDefault)

\* One table is longer than defaultValue (no padding), the other is padded.
C1_Witness ==
    /\ tPc = "returned"
    /\ Len(IssuedOf(ScannedList)) > tDefault
    /\ Len(ReturnedOf(ScannedList)) < tDefault
    /\ Len(tOut.returnedEls) = tDefault

\* C2: in each returned table the serial numbers read top to bottom are
\* 1, 2, ..., rowCount: real rows by output position, padding rows after them.
C2_SerialsContiguous ==
    tPc = "returned" =>
        /\ \A i \in 1..Len(tOut.issuedEls) : tOut.issuedEls[i].sr = i
        /\ \A i \in 1..Len(tOut.returnedEls) : tOut.returnedEls[i].sr = i

\* An entry matching neither keyword was dropped in front of a real row, and
\* the table holds real rows followed by padding rows.
C2_Witness ==
    /\ tPc = "returned"
    /\ tParam.materialKind = "array"
    /\ Len(tParam.material) >= 2
    /\ ~MatchesIssued(tParam.material[1]) /\ ~MatchesReturn(tParam.material[1])
    /\ Len(RealRows(tOut.issuedEls)) >= 1
    /\ Len(RealRows(tOut.issuedEls)) < Len(tOut.issuedEls)

\* C3: with isOnepmFSR = true each table holds at most 3 real rows.
C3_OnepmAtMostThree ==
    (tPc = "returned" /\ tOnepm) =>
        /\ Len(RealRows(tOut.issuedEls)) <= 3
        /\ Len(RealRows(tOut.returnedEls)) <= 3

\* C4: first match wins: an entry matching both tokens is shown in the
\* issued table only, so the returned table's real rows are the scanned
\* entries matching 'return' and not 'issued'.
C4_FirstMatchWins ==
    tPc = "returned" =>
        /\ Len(RealRows(tOut.issuedEls)) = Len(IssuedOf(ScannedList))
        /\ Len(RealRows(tOut.returnedEls)) =
               Len(SelectSeq(ScannedList, LAMBDA e : MatchesReturn(e) /\ ~MatchesIssued(e)))

RowShows(row, element) ==
    /\ row.code = FieldText(element.part_code)
    /\ row.desc = FieldText(element.part_description)
    /\ row.serialno = FieldText(element.part_serialno)
    /\ row.qty = FieldText(element.part_qty)

\* C5: without the onepm restriction the real rows of the issued (returned)
\* table are the entries matching 'issued' ('return'), all of them, in input
\* order, each row showing that entry's code, description, serial and quantity.
C5_RowsInOrder ==
    (tPc = "returned" /\ ~tOnepm /\ tParam.materialKind = "array") =>
        LET iss == IssuedOf(tParam.material)
            ret == ReturnedOf(tParam.material)
            issRows == RealRows(tOut.issuedEls)
            retRows == RealRows(tOut.returnedEls)
        IN  /\ Len(issRows) = Len(iss)
            /\ Len(retRows) = Len(ret)
            /\ \A i \in 1..Len(iss) : RowShows(issRows[i], iss[i])
            /\ \A i \in 1..Len(ret) : RowShows(retRows[i], ret[i])

\* Two different issued entries and an entry matching both tokens were shown.
C5_Witness ==
    /\ tPc = "returned" /\ ~tOnepm /\ tParam.materialKind = "array"
    /\ Len(RealRows(tOut.issuedEls)) >= 2
    /\ tOut.issuedEls[1].code # tOut.issuedEls[2].code
    /\ \E i \in 1..Len(tParam.material) :
           MatchesIssued(tParam.material[i]) /\ MatchesReturn(tParam.material[i])

\* ------------------------------------------------------------------------
\* Properties of the composers
\* ------------------------------------------------------------------------
HasOp(d, tag) == \E i \in 1..Len(d.ops) : d.ops[i].tag = tag

\* C6: in generateAirReport nothing is drawn below the printable page height
\* (page height minus bottom margin), whatever the length of the material list.
C6_NoDrawBeyondPage ==
    (cKind = "air" /\ cPc = "resolved") =>
        \A i \in 1..Len(cDoc.ops) : cDoc.ops[i].y + cDoc.ops[i].h <= PrintableBottom

MalformedLogos == {"noComma", "corrupt"}

\* C10: a logo whose decoding or drawing fails never makes a composer's
\* drawing throw: the composer draws exactly what it draws without a logo
\* (title first, timestamp last, no logo image) and ends the document.
C10_MalformedLogoTolerated ==
    (cFo \in FinalObjects /\ cFo.logo \in MalformedLogos /\ cPc \notin {"ready", "idle"}) =>
        /\ cWhy # "throw"
        /\ ~cDoc.threw
        /\ ~HasOp(cDoc, "logo")
        /\ cDoc.ops = Compose(cKind, [cFo EXCEPT !.logo = "absent"]).ops
        /\ cDoc.ops[1].tag = "title"
        /\ cDoc.ops[Len(cDoc.ops)].tag = "timestamp"

\* A composer resolved although doc.image rejected the logo bytes.
C10_Witness ==
    /\ cPc = "resolved"
    /\ cFo.logo = "corrupt"
    /\ HasOp(cDoc, "timestamp")

\* ------------------------------------------------------------------------
\* Properties of the notification.report handler
\* ------------------------------------------------------------------------
KnownGroup(body) ==
    body.product_group # Undefined
    /\ ToLowerCase(body.product_group) \in {"dpg", "air", "power", "dcps"}

\* C7: the document generated for product group dcps has no safety section,
\* and the document generated for dpg, air or power has one, for every
\* request body.
C7_SafetySectionByKind ==
    (hBuf.set /\ KnownGroup(req.body)) =>
        (HasOp(hBuf.doc, "safety") <=> ToLowerCase(req.body.product_group) # "dcps")

\* C8: a POST whose product_group is absent or not one of the four kinds
\* never invokes a generate*Report function, and every response it gets is an
\* error response without PDF bytes; it is answered once the handler is done.
C8_UnknownGroupRejected ==
    (hPc # "idle" /\ req.method = "POST" /\ ~KnownGroup(req.body)) =>
        /\ hGenCalls = <<>>
        /\ ~hBuf.set
        /\ \A i \in 1..Len(hRes) :
               hRes[i].status >= 400 /\ hRes[i].success = "false" /\ hRes[i].pdf = "none"
        /\ hPc = "done" => Len(hRes) = 1

\* An unknown kind sent with a well-formed body was answered with the error.
C8_Witness ==
    /\ hPc = "done"
    /\ req.method = "POST"
    /\ req.body.product_group = "ups"
    /\ req.body.params = "formdata"
    /\ req.body.materialKind = "array"
    /\ hRes = <<ErrorResponse>>

\* C9: a request whose param.material is present but not a sequence never
\* completes successfully: it is answered with an error and no PDF.
C9_MalformedMaterialFails ==
    (hPc = "done" /\ req.method = "POST" /\ req.body.materialKind \in {"object", "string"}) =>
        \A i \in 1..Len(hRes) : hRes[i].success = "false" /\ hRes[i].pdf = "none"

\* C11 (amended): the promise of a composer settles once and keeps its
\* state; it resolves only after every chunk was pushed, with all chunks in
\* emission order; when a step outside the logo block throws or the
\* document emits 'error' it is rejected and never resolves.
AllChunks == [i \in 1..cTotal |-> i]

SettledStays ==
    cPc \in {"resolved", "rejected"} => (cPc' = cPc /\ cValue' = cValue /\ cWhy' = cWhy)

C11_SettlesOnce ==
    /\ [](cPc = "resolved" =>
            /\ cValue = AllChunks /\ cBuffers = AllChunks
            /\ ~cDoc.threw /\ cWhy = "none")
    /\ []((cDoc.threw \/ cWhy # "none") => (cPc = "rejected" /\ cValue = <<>>))
    /\ []((cPc \in {"ready", "pending"}) => cValue = <<>>)
    /\ [][SettledStays]_vars

C11_Witness ==
    /\ cPc = "resolved" /\ cTotal = MaxChunks /\ cValue = AllChunks

\* C11 as stated: no error of a drawing step, the logo image included, ends
\* in a resolved promise.
C11_NoErrorSwallowed ==
    (cFo \in FinalObjects /\ cFo.logo \in {"noComma", "corrupt", "nonString"}) => cPc # "resolved"

\* Every operation tagged a is issued before every operation tagged b.
Before(d, a, b) ==
    \A i, j \in 1..Len(d.ops) : (d.ops[i].tag = a /\ d.ops[j].tag = b) => i < j

\* C12: a composed document has its sections in the order logo, title,
\* time-spent grid, safety/assessment grid, issued-parts table,
\* returned-parts table, signature blocks, footer.
C12_FixedSectionOrder ==
    cPc = "resolved" =>
        /\ Before(cDoc, "logo", "title")
        /\ Before(cDoc, "timeTable", "assessmentTable")
        /\ Before(cDoc, "issuedHeading", "returnedHeading")
        /\ Before(cDoc, "partConsumed", "partReturned")
        /\ Before(cDoc, "partReturned", "signatures")
        /\ Before(cDoc, "signatures", "footer")

\* A step that invokes a generator is the first invocation of the request
\* or the one retry that follows the delay after a failed invocation.
InvokedOnlyAtEntryOrRetry ==
    Len(hGenCalls') > Len(hGenCalls) =>
        /\ Len(hGenCalls') = Len(hGenCalls) + 1
        /\ \/ hPc = "start" /\ hGenCalls = <<>>
           \/ hPc = "delay" /\ Len(hGenCalls) = 1 /\ ~hBuf.set

\* C13: handling a POST invokes the selected generator once, and once more
\* only after that invocation failed; when the second invocation fails too
\* the request ends with an error response with success:false.
C13_RetryOnlyOnFailure ==
    /\ [][InvokedOnlyAtEntryOrRetry]_vars
    /\ [](Len(hGenCalls) <= 2)
    /\ []((hPc = "done" /\ Len(hGenCalls) = 2 /\ ~hBuf.set) =>
            (Len(hRes) = 1 /\ hRes[1].success = "false" /\ hRes[1].pdf = "none"))

FirstThree(list) == SubSeq(list, 1, IF Len(list) < 3 THEN Len(list) ELSE 3)

\* The real rows of a table show exactly the given entries, in order.
ShowsEntries(els, entries) ==
    /\ Len(RealRows(els)) = Len(entries)
    /\ \A i \in 1..Len(entries) : RowShows(RealRows(els)[i], entries[i])

\* C14: under the onepm restriction each table holds the first three
\* entries of the material list matching its activity, in input order,
\* whatever the other table has admitted.
C14_CapDuringScan ==
    (tPc = "returned" /\ tOnepm /\ tParam.materialKind = "array") =>
        /\ ShowsEntries(tOut.issuedEls, FirstThree(IssuedOf(tParam.material)))
        /\ ShowsEntries(tOut.returnedEls, FirstThree(ReturnedOf(tParam.material)))

\* C15: a POST without call_no or without product_group is answered with
\* status 400, and no PDF is generated, uploaded or returned for it.
C15_MissingParameterIs400 ==
    (hPc = "done" /\ req.method = "POST"
        /\ (req.body.call_no = Undefined \/ req.body.product_group = Undefined)) =>
        /\ Len(hRes) = 1 /\ hRes[1].status = 400 /\ hRes[1].pdf = "none"
        /\ hGenCalls = <<>> /\ hPuts = <<>>

\* C16: when the payload carries complete S3 credentials, the generated PDF
\* is uploaded by one PutObject whose client uses the payload's credentials
\* and bucket, whatever the environment holds.
C16_PayloadCredentialsUsed ==
    (hPc = "done" /\ req.method = "POST" /\ hBuf.set /\ req.body.s3Credentials = "complete") =>
        /\ Len(hPuts) = 1
        /\ hPuts[1].creds = "payload"

\* The steps of the helper in a run of sequential calls:
\*   this.browser is set to a browser only when it was null;
\*   it becomes null only by a closeBrowser that returns;
\*   a closeBrowser that returns leaves it null;
\*   every page a helper call opens is on the browser this.browser refers to.
ReuseStep ==
    /\ (bBrowser' # bBrowser /\ bBrowser' # 0) => (bBrowser = 0 /\ bLaunched' = bLaunched + 1)
    /\ (bLaunched' # bLaunched /\ \A p \in Callers : bOp[p] # "simple") => bBrowser = 0
    /\ (bBrowser' = 0 /\ bBrowser # 0) =>
            \E p \in Callers : bOp[p] = "close" /\ bPc[p] = "closing" /\ bOut'[p] = "returned"
    /\ (bCalls' > bCalls /\ \A q \in Callers : bPc'[q] = "idle") => bBrowser' = 0
    /\ \A p \in Callers :
            /\ (bPc[p] = "closing" /\ bOut'[p] = "returned") => bBrowser' = 0
            /\ (bPage'[p] # 0 /\ bPage[p] = 0 /\ bOp[p] # "simple") =>
                    (bPage'[p] = bBrowser /\ bBrowser \in bOpen)
            /\ (bCalls' > bCalls /\ bOp'[p] \in {"html", "dpg"} /\ bPc'[p] # "idle") =>
                    (bPc'[p] = "launch" <=> bBrowser = 0)

\* C17: in sequential use the helper launches a browser only when it holds
\* none and reuses the one it holds for every call; closeBrowser leaves the
\* reference null, and the next generate call launches a new browser.
C17_BrowserReused == [][ReuseStep]_vars

\* Every call allowed by the bound was a generate call of the helper that
\* returned, and one browser was launched for all of them.
C17_Witness ==
    /\ bCalls = MaxCalls /\ bCalls >= 2
    /\ bLaunched = 1 /\ bBrowser = 1
    /\ \A p \in Callers : bPc[p] = "idle" /\ bOp[p] \in {"html", "dpg"} /\ bOut[p] = "returned"

\* C18: when a call has returned or thrown, the page it opened is closed
\* and so is the browser it launched for itself.
C18_ClosedOnEveryPath ==
    \A p \in Callers :
        (bPc[p] = "idle" /\ bOut[p] # "none") =>
            /\ bPage[p] = 0
            /\ (bOp[p] = "simple" => (bOwn[p] = 0 \/ bOwn[p] \notin bOpen))

\* The rows made of a table's markup are as many as the markup's rows and
\* each real row carries the five cell texts of the markup's row.
SameRows(trs, els) ==
    /\ Len(trs) = Len(els)
    /\ \A i \in 1..Len(els) : ~els[i].pad => (i <= Len(trs) /\ trs[i] = CellTexts(els[i]))

\* C19: for the markup the table function produces with defaultValue 3,
\* generatePartsTableRows yields max(matching count, 3) rows whose real rows
\* carry the same five fields as the markup's rows.
C19_RowsRoundTrip ==
    (tPc = "rows" /\ tDefault = 3) =>
        /\ SameRows(tRows.issued, tOut.issuedEls)
        /\ SameRows(tRows.returned, tOut.returnedEls)

\* The text drawn for a field.
TextOf(d, tag) == (CHOOSE o \in {d.ops[i] : i \in 1..Len(d.ops)} : o.tag = tag).text

\* C20: generateAirReport draws 'N/A' for every scalar field that is missing
\* or empty in its input, and the missing field does not make it fail.
C20_MissingFieldsDefault ==
    (cKind = "air" /\ cPc \notin {"ready", "idle"} /\ cFo.logo # "nonString") =>
        /\ cWhy # "throw"
        /\ Missing(cFo.param.call_no) => TextOf(cDoc, "callNo") = "N/A"
        /\ Missing(cFo.paramObj.customer_name) => TextOf(cDoc, "customerName") = "N/A"
        /\ Missing(cFo.paramObj.site_name) => TextOf(cDoc, "siteName") = "N/A"
        /\ Missing(cFo.paramObj.engineer_name) => TextOf(cDoc, "engineerName") = "N/A"
        /\ Missing(cFo.paramObj.report_date) => TextOf(cDoc, "reportDate") = "N/A"
        /\ Missing(cFo.paramObj.problem_statement) => TextOf(cDoc, "problemStatementText") = "N/A"
        /\ Missing(cFo.paramObj.work_performed) => TextOf(cDoc, "workPerformed") = "N/A"
        /\ Missing(cFo.paramObj.recommendations) => TextOf(cDoc, "recommendations") = "N/A"
        /\ Missing(cFo.paramObj.start_time) => TextOf(cDoc, "startTime") = "N/A"
        /\ Missing(cFo.paramObj.end_time) => TextOf(cDoc, "endTime") = "N/A"
        /\ Missing(cFo.paramObj.total_time) => TextOf(cDoc, "totalTime") = "N/A"

\* C21: a composer invoked again with the same finalObject issues the same
\* sequence of draw operations as the invocation before, whenever it runs.
C21_SameInputSameDocument ==
    (cReruns > 0 /\ cPc \in {"pending", "resolved"}) => cDoc.ops = cPrev

\* C22: sendv1PDFEmail is never invoked for a request whose dontSentEmail
\* flag is set, on any path through the handler.
C22_NoEmailWhenDisabled ==
    req.body.dontSentEmail => hEmails = 0

\* A request with the flag set was answered with an etag after the upload
\* of the local path that followed a failed serverless call.
C22_Witness ==
    /\ hPc = "done" /\ req.method = "POST" /\ req.body.dontSentEmail
    /\ req.body.useServerlessReports
    /\ Len(hPuts) = 1 /\ hPuts[1].result = "ok"
    /\ hRes[1].etag /\ hEmails = 0

IndexOf(d, tag) == CHOOSE i \in 1..Len(d.ops) : d.ops[i].tag = tag /\ \A j \in 1..(i - 1) : d.ops[j].tag # tag

\* The number of body rows (data rows and empty rows) drawn between two sections.
BodyRows(d, from, to) ==
    Cardinality({ i \in 1..Len(d.ops) : /\ d.ops[i].tag \in {"row", "padRow"}
                                         /\ IndexOf(d, from) < i /\ i < IndexOf(d, to) })

\* C24: generateAirReport draws each of its two parts tables with exactly
\* max(number of matching parts, 3) body rows.
C24_AirTablesPadToThree ==
    (cKind = "air" /\ cPc = "resolved") =>
        /\ BodyRows(cDoc, "partReturned", "partConsumed") = Max(Len(AirFilter(cFo.param, "return")), 3)
        /\ BodyRows(cDoc, "partConsumed", "serviceBillable") = Max(Len(AirFilter(cFo.param, "issued")), 3)


\* The elementRow operations of a document, by index.
ElementRowIdx(d) == { i \in 1..Len(d.ops) : d.ops[i].tag = "elementRow" }

\* C25: in the array-based composers the page-break guard runs before every
\* row: every row is drawn at a y of at most 700, at the cursor that follows
\* the operation before it (20 below) when that is at most 700, and otherwise
\* at y = 50 on the page added after it.
C25_GuardBeforeEveryRow ==
    (cKind \in ArrayComposers /\ cPc \in {"pending", "resolved"}) =>
        \A i \in ElementRowIdx(cDoc) :
            /\ cDoc.ops[i].y <= 700
            /\ i > 1
            /\ IF cDoc.ops[i - 1].y + 20 > 700
               THEN cDoc.ops[i].y = 50 /\ cDoc.ops[i].page = cDoc.ops[i - 1].page + 1
               ELSE /\ cDoc.ops[i].y = cDoc.ops[i - 1].y + 20
                    /\ cDoc.ops[i].page = cDoc.ops[i - 1].page

\* A resolved document of three pages: both lists crossed y = 700, with a row
\* at y = 700 and the next one at y = 50 on the following page.
C25_Witness ==
    /\ cKind \in ArrayComposers /\ cPc = "resolved"
    /\ cDoc.pages = 3
    /\ \E i \in ElementRowIdx(cDoc) :
          /\ cDoc.ops[i].y = 50 /\ cDoc.ops[i].page = 2
          /\ cDoc.ops[i - 1].tag = "elementRow" /\ cDoc.ops[i - 1].y = 700
    /\ \E i \in ElementRowIdx(cDoc) : cDoc.ops[i].y = 50 /\ cDoc.ops[i].page = 3

\* C26: every request receives exactly one response: never a second one,
\* the handler has returned exactly when one response was sent, and as long
\* as it has not returned it can take a step towards its response.
C26_ExactlyOneResponse ==
    /\ Len(hRes) <= 1
    /\ (hPc = "done") <=> (Len(hRes) = 1)
    /\ (hPc # "done") => ENABLED HandlerNext

\* The longest path: the generator retried, the serverless service failed,
\* the fallback upload failed, and the one response carries the PDF itself.
C26_Witness ==
    /\ hPc = "done" /\ Len(hRes) = 1
    /\ hRes[1].via = "send"
    /\ req.body.useServerlessReports
    /\ Len(hGenCalls) = 3
    /\ Len(hPuts) = 1 /\ hPuts[1].result = "failed"

\* The cursor generateAirReport has reached at its page-break check.
CursorAtBreak(fo) == Compile(AirFirstPage(fo)).y

\* C27: in generateAirReport the cursor at the page-break check is the same
\* for every input (765) and above 600, so the check always fires: the
\* report has at least two pages and its 'Part Returned' heading is drawn at
\* y = 50 on the second page.
C27_AirAlwaysBreaks ==
    (cKind = "air" /\ cPc \in {"pending", "resolved"}) =>
        /\ CursorAtBreak(cFo) = 765
        /\ CursorAtBreak(cFo) > 600
        /\ cDoc.pages >= 2
        /\ cDoc.ops[IndexOf(cDoc, "partReturned")].y = 50
        /\ cDoc.ops[IndexOf(cDoc, "partReturned")].page = 2

\* An Air report with a logo, filled fields and parts in both tables has
\* resolved with its parts section on the second page.
C27_Witness ==
    /\ cKind = "air" /\ cPc = "resolved"
    /\ cFo.logo = "valid"
    /\ Len(AirFilter(cFo.param, "return")) > 3
    /\ Len(AirFilter(cFo.param, "issued")) > 3
    /\ cDoc.ops[IndexOf(cDoc, "partReturned")].page = 2
    /\ cDoc.ops[IndexOf(cDoc, "activityTable")].page = 1

\* The rows generatePartReturnedAndConsumedTable draws for a list of parts.
RowsOf(parts) == [i \in 1..Len(parts) |-> RealRow(i, parts[i])]

\* C28: for the material list of every request the handler has taken up,
\* the table function it runs (line 629) does not fail, and its issued and
\* returned rows are those of the entries generateAirReport's filters
\* select; an entry without part_activity is dropped by both.
C28_SameSelection ==
    (hPc # "start" /\ IsPost(req.method) /\ req.body.params # "invalid"
     /\ req.body.materialKind = "array") =>
        LET t == generatePartReturnedAndConsumedTable(req.body, 3, FALSE)
        IN  /\ ~t.threw
            /\ RealRows(t.issuedEls) = RowsOf(AirFilter(req.body, "issued"))
            /\ RealRows(t.returnedEls) = RowsOf(AirFilter(req.body, "return"))

\* C29: a 200 response that reports an etag and a storage path is sent only
\* after a PutObject of this request has completed successfully, on the
\* local path and on the useServerlessReports path.
C29_EtagOnlyAfterUpload ==
    \A i \in 1..Len(hRes) :
        (hRes[i].status = 200 /\ hRes[i].etag) =>
            \E j \in 1..Len(hPuts) : hPuts[j].result = "ok"

\* A launch of the helper that completes finds this.browser as its check
\* saw it, null: its assignment replaces no browser launched in between.
AtomicLaunchStep ==
    \A p \in Callers :
        (bPc[p] = "launch" /\ bOp[p] \in {"html", "dpg"} /\ bPc'[p] = "newPage") =>
            /\ bBrowser = 0
            /\ bBrowser' = bLaunched'

\* C30: when generate calls run concurrently on the shared helper while no
\* browser exists, the check of this.browser and the assignment after the
\* awaited launch behave atomically: no launch completes while this.browser
\* already holds a browser, so the browser is launched once and none loses
\* its only reference.
C30_LaunchAtomic == [][AtomicLaunchStep]_vars
====
